---- MODULE Spec2Model ----
(***************************************************************************)
(* Model of the Macro_pulse normalization-and-forecasting pipeline:        *)
(*   src/processed_data.py  raw CSV -> daily, gap-filled processed CSV     *)
(*   src/forecast.py        processed CSVs, grouped by symbol -> forecast  *)
(*                                                                         *)
(* Time is counted in ticks, TicksPerDay ticks to a calendar day, so that  *)
(* a timestamp has a calendar day (t \div TicksPerDay) and a time-of-day   *)
(* (t % TicksPerDay).  A pandas frequency of "D" is TicksPerDay ticks.     *)
(* All timestamps of one CSV are written in one textual format (wall clock *)
(* plus UTC offset), so pandas parses each of them on its own.             *)
(***************************************************************************)
EXTENDS Integers, Sequences, FiniteSets, TLC

\* ---------------------------------------------------------------- bounds
TicksPerDay == 2      \* resolution of the time-of-day
MaxRows == 2          \* data rows in the whole raw directory

\* ------------------------------------------------------ program constants
FORECAST_STEPS == 30
MIN_POINTS == 20

\* ------------------------------------------------------------ value kinds
\* A CSV cell holding a price: a number, an empty cell (NaN) or other text.
Num(v) == [tag |-> "num", v |-> v]
NaN == [tag |-> "nan", v |-> 0]
Text == [tag |-> "str", v |-> 0]
\* An empty symbol cell, as asfreq inserts it.
NoSymbol == "<NA>"
\* A timestamp as text: wall-clock day and time-of-day, and a UTC offset.
Stamp(d, tod, off) == [ok |-> TRUE, day |-> d, tod |-> tod, off |-> off]
BadStamp == [ok |-> FALSE, day |-> 0, tod |-> 0, off |-> 0]
\* A parsed timestamp: NaT or an instant in ticks.
NaT == [nat |-> TRUE, t |-> 0]
At(t) == [nat |-> FALSE, t |-> t]

NoFile == [exists |-> FALSE]

Range(s) == {s[i] : i \in DOMAIN s}
\* a function on 1..n as the sequence of its values
AsSeq(s) == s \o <<>>
Min(S) == CHOOSE x \in S : \A y \in S : x <= y
Max(S) == CHOOSE x \in S : \A y \in S : x >= y

\* ------------------------------------------------------------- file names
Symbols == {"A", "B"}
CsvName(stem) == [stem |-> stem, ext |-> ".csv"]
Files == {CsvName(s) : s \in Symbols}

infer_symbol_from_filename(file_path) == file_path.stem

\* ------------------------------------------------------ column resolution
\* str.lower() on the column names that occur
Lower(c) ==
    CASE c = "Datetime" -> "datetime"
      [] c = "Close" -> "close"
      [] OTHER -> c
DateAliases == {"date", "datetime"}
PriceAliases == {"price", "close", "adj close"}

\* A table: a sequence of column names and a set or sequence of rows, each
\* row a function from the column names to cells.
Rename(df, old, new) ==
    LET cols == [i \in DOMAIN df.cols |->
                    IF df.cols[i] = old THEN new ELSE df.cols[i]]
        ren(r) == [c \in Range(cols) |-> IF c = new THEN r[old] ELSE r[c]]
    IN  [cols |-> cols, rows |-> {ren(r) : r \in df.rows}]

FirstMatch(cols, aliases) ==
    LET hits == {i \in DOMAIN cols : Lower(cols[i]) \in aliases}
    IN  IF hits = {} THEN 0 ELSE Min(hits)

AddColumn(df, c, v) ==
    [cols |-> Append(df.cols, c),
     rows |-> {[k \in Range(df.cols) \cup {c} |-> IF k = c THEN v ELSE r[k]]
                 : r \in df.rows}]

validate_and_fix_columns(df, file_path) ==
    LET d == FirstMatch(df.cols, DateAliases)
        df1 == IF d # 0 /\ "date" \notin Range(df.cols)
               THEN Rename(df, df.cols[d], "date") ELSE df
        p == FirstMatch(df1.cols, PriceAliases)
        df2 == IF p # 0 /\ "price" \notin Range(df1.cols)
               THEN Rename(df1, df1.cols[p], "price") ELSE df1
    IN  IF "symbol" \notin Range(df2.cols)
        THEN AddColumn(df2, "symbol", infer_symbol_from_filename(file_path))
        ELSE df2

\* ---------------------------------------------------------- date handling
\* pd.to_datetime(errors="coerce", utc=True) then tz_convert(None): the UTC
\* instant of the text, its time-of-day kept; unparseable text is NaT.
ToUtcNaive(s) ==
    IF s.ok THEN At(s.day * TicksPerDay + s.tod - s.off) ELSE NaT

\* to_csv writes a naive timestamp as its wall-clock text, no offset.
FormatDate(t) == Stamp(t \div TicksPerDay, t % TicksPerDay, 0)

\* ------------------------------------------------------------ gap filling
FFill(s, null) ==
    AsSeq([i \in DOMAIN s |->
        LET known == {j \in 1..i : s[j] # null}
        IN  IF known = {} THEN null ELSE s[Max(known)]])
BFill(s, null) ==
    AsSeq([i \in DOMAIN s |->
        LET known == {j \in i..Len(s) : s[j] # null}
        IN  IF known = {} THEN null ELSE s[Min(known)]])

\* pd.to_numeric(errors="coerce")
ToNumeric(p) == IF p.tag = "num" THEN p ELSE NaN

\* Series.pct_change(lag) * 100, kept as the exact fraction num/den.
PctNaN == [tag |-> "nan", num |-> 0, den |-> 1]
PctInf == [tag |-> "inf", num |-> 0, den |-> 1]
PctChange(price, lag) ==
    AsSeq([i \in DOMAIN price |->
        IF i <= lag \/ price[i].tag # "num" \/ price[i - lag].tag # "num"
        THEN PctNaN
        ELSE IF price[i - lag].v = 0
        THEN (IF price[i].v = 0 THEN PctNaN ELSE PctInf)
        ELSE [tag |-> "num", num |-> (price[i].v - price[i - lag].v) * 100,
              den |-> price[i - lag].v]])

\* DataFrame.set_index("date").asfreq("D") on rows with parsed, non-null
\* dates (a set of records with an instant t): the grid runs from the
\* earliest instant in steps of one day up to the latest instant; a grid
\* point takes the row of exactly that instant and is empty otherwise; rows
\* off the grid are dropped.  Reindexing raises ValueError when two rows
\* carry the same instant.
HasDuplicateInstant(rows) ==
    \E p, q \in rows : p # q /\ p.t = q.t
GridLen(lo, hi) == (hi - lo) \div TicksPerDay + 1
GridAt(lo, i) == lo + (i - 1) * TicksPerDay
GridIndex(rows) ==
    LET lo == Min({p.t : p \in rows})
        hi == Max({p.t : p \in rows})
    IN  AsSeq([i \in 1..GridLen(lo, hi) |-> GridAt(lo, i)])
OnGrid(rows, t) == {p \in rows : p.t = t}
\* the cell of column c at every grid point, empty where no row sits
Asfreq(rows, c, null) ==
    LET idx == GridIndex(rows)
    IN  AsSeq([i \in DOMAIN idx |->
            IF OnGrid(rows, idx[i]) = {} THEN null
            ELSE (CHOOSE p \in OnGrid(rows, idx[i]) : TRUE)[c]])

\* ------------------------------------------------ processed_data.py: core
\* Result of process_file: None, a raised exception, or a table whose rows
\* are ordered by date.
ResultNone(why) == [kind |-> "none", why |-> why, cols |-> <<>>, rows |-> <<>>]
ResultRaise(why) == [kind |-> "raise", why |-> why, cols |-> <<>>, rows |-> <<>>]
ResultDf(cols, rows) == [kind |-> "df", why |-> "ok", cols |-> cols, rows |-> rows]

RequiredColumns == {"date", "symbol", "price"}
ChangeColumns == <<"Daily_Change_%", "Weekly_Change_7d_%", "Monthly_Change_30d_%">>

\* rows surviving dropna(subset=["date", "price"]), with the parsed instant
Cleaned(df) ==
    {p \in {[src |-> r, t |-> ToUtcNaive(r["date"]).t,
             nat |-> ToUtcNaive(r["date"]).nat,
             symbol |-> r["symbol"], price |-> r["price"]] : r \in df.rows}
        : ~p.nat /\ p.price.tag # "nan"}

AlignAndChange(df, kept) ==
    LET idx == GridIndex(kept)
        symbol == BFill(FFill(Asfreq(kept, "symbol", NoSymbol), NoSymbol), NoSymbol)
        asfreq == Asfreq(kept, "price", NaN)
        coerced == AsSeq([i \in DOMAIN idx |-> ToNumeric(asfreq[i])])
        price == BFill(FFill(coerced, NaN), NaN)
        daily == PctChange(price, 1)
        weekly == PctChange(price, 7)
        monthly == PctChange(price, 30)
        rest == SelectSeq(df.cols, LAMBDA c : c # "date")
    IN  ResultDf(<<"date">> \o rest \o ChangeColumns,
                 AsSeq([i \in DOMAIN idx |->
                     [date |-> idx[i], symbol |-> symbol[i], price |-> price[i],
                      daily |-> daily[i], weekly |-> weekly[i],
                      monthly |-> monthly[i]]]))

process_file(file_path, file) ==
    IF ~file.readable THEN ResultNone("unreadable")
    ELSE IF file.rows = {} THEN ResultNone("empty")
    ELSE LET df == validate_and_fix_columns([cols |-> file.cols, rows |-> file.rows],
                                            file_path)
         IN  IF RequiredColumns \ Range(df.cols) # {} THEN ResultNone("missing")
             ELSE LET kept == Cleaned(df)
                  IN  IF kept = {} THEN ResultNone("norows")
                      ELSE IF HasDuplicateInstant(kept) THEN ResultRaise("duplicate")
                      ELSE AlignAndChange(df, kept)

\* DataFrame.to_csv of a processed table: the dates become text.
ToCsv(df) ==
    [exists |-> TRUE, cols |-> df.cols,
     rows |-> AsSeq([i \in DOMAIN df.rows |->
                  [df.rows[i] EXCEPT !.date = FormatDate(df.rows[i].date)]])]

\* ------------------------------------------------------- forecast.py: core
\* pd.concat of the readable processed files: every row with the place it
\* came from, so that equal rows of two files stay two rows.
Concat(dir, readable) ==
    UNION {{[file |-> f, i |-> i, row |-> dir[f].rows[i]]
              : i \in DOMAIN dir[f].rows} : f \in readable}
ConcatColumns(dir, readable) ==
    UNION {Range(dir[f].cols) : f \in readable}

\* data.groupby("symbol"): the keys in sorted order, each with its rows
SymbolOrder == <<"A", "B">>
GroupKeys(data) ==
    SelectSeq(SymbolOrder, LAMBDA k : \E x \in data : x.row.symbol = k)
Group(data, k) == {x \in data : x.row.symbol = k}

\* Result of prepare_series: None, a raised exception, or the daily series.
SeriesNone(why) == [kind |-> "none", why |-> why, index |-> <<>>, price |-> <<>>]
SeriesRaise(why) == [kind |-> "raise", why |-> why, index |-> <<>>, price |-> <<>>]
Series(index, price) == [kind |-> "series", why |-> "ok", index |-> index, price |-> price]

\* rows of a group surviving dropna(subset=["date", "price"])
CleanedGroup(df_symbol) ==
    {p \in {[src |-> x, t |-> ToUtcNaive(x.row.date).t,
             nat |-> ToUtcNaive(x.row.date).nat,
             price |-> x.row.price] : x \in df_symbol}
        : ~p.nat /\ p.price.tag # "nan"}

NonNull(price) == {i \in DOMAIN price : price[i].tag # "nan"}

\* mutant: prepare_series without its minimum-data guard
prepare_series_NoMinimum(cols, df_symbol) ==
    IF ~({"date", "price"} \subseteq cols) THEN SeriesNone("missing")
    ELSE LET kept == CleanedGroup(df_symbol)
         IN  IF kept = {} THEN SeriesNone("short")
             ELSE IF HasDuplicateInstant(kept) THEN SeriesRaise("duplicate")
             ELSE LET asfreq == Asfreq(kept, "price", NaN)
                      coerced == AsSeq([i \in DOMAIN asfreq |-> ToNumeric(asfreq[i])])
                  IN  Series(GridIndex(kept), BFill(FFill(coerced, NaN), NaN))

prepare_series(cols, df_symbol) ==
    IF ~({"date", "price"} \subseteq cols) THEN SeriesNone("missing")
    ELSE LET kept == CleanedGroup(df_symbol)
         IN  IF kept = {} THEN SeriesNone("short")
             ELSE IF HasDuplicateInstant(kept) THEN SeriesRaise("duplicate")
             ELSE LET asfreq == Asfreq(kept, "price", NaN)
                      coerced == AsSeq([i \in DOMAIN asfreq |-> ToNumeric(asfreq[i])])
                      price == BFill(FFill(coerced, NaN), NaN)
                  IN  IF Cardinality(NonNull(price)) < MIN_POINTS
                      THEN SeriesNone("short")
                      ELSE Series(GridIndex(kept), price)

\* fit.get_forecast(steps): the index continues the series' daily index.
\* mutant: the forecast index starts on the last historical date
ForecastIndex_FromLast(y, steps) ==
    AsSeq([i \in 1..steps |-> y.index[Len(y.index)] + (i - 1) * TicksPerDay])

ForecastIndex(y, steps) ==
    AsSeq([i \in 1..steps |-> y.index[Len(y.index)] + i * TicksPerDay])

ForecastColumns == <<"date", "symbol", "forecast", "ci_lower", "ci_upper">>

\* The table forecast_one_symbol builds and writes; the numbers the fitted
\* model returns are not modelled.
ForecastTable(symbol, y) ==
    [exists |-> TRUE, cols |-> ForecastColumns,
     rows |-> LET index == ForecastIndex(y, FORECAST_STEPS)
              IN  AsSeq([i \in 1..FORECAST_STEPS |->
                     [date |-> FormatDate(index[i]),
                      symbol |-> symbol, forecast |-> "mean",
                      ci_lower |-> "lower", ci_upper |-> "upper"]])]

\* ------------------------------------------------------------------ state
VARIABLES
    raw,          \* data/raw: file name -> CSV content or NoFile
    processed,    \* data/processed: file name -> CSV content or NoFile
    forecasted,   \* data/forecasted: symbol -> forecast CSV or NoFile
    pc,           \* where the two batch runs stand
    todo,         \* processed_data.main: files of the glob not yet handled
    fileResult,   \* processed_data.main: what happened to each file
    data,         \* forecast.main: the concatenated processed rows
    dataCols,     \* forecast.main: the columns of data
    groups,       \* forecast.main: symbols of the groupby not yet handled
    symResult,    \* forecast.main: what happened to each symbol
    fitted,       \* symbols for which model.fit() was called
    earlier       \* data/forecasted as it was before the runs

vars == <<raw, processed, forecasted, pc, todo, fileResult, data, dataCols,
          groups, symResult, fitted, earlier>>

\* ------------------------------------------------------------- raw inputs
RECURSIVE SubsetsOfSize(_, _)
SubsetsOfSize(S, n) ==
    IF n = 0 THEN {{}}
    ELSE UNION {{x \cup {e} : x \in SubsetsOfSize(S \ {e}, n - 1)} : e \in S}

RawStamps == {Stamp(0, 0, 0), Stamp(0, 1, 0), Stamp(1, 1, 1),
              Stamp(MIN_POINTS - 1, 1, 0)}
RawPrices == {Num(100), Num(110)}
\* rows of a file with the canonical header
CanonicalColumns == <<"date", "symbol", "price">>
CanonicalRow(d, sym, p) ==
    [c \in Range(CanonicalColumns) |->
        CASE c = "date" -> d [] c = "symbol" -> sym [] OTHER -> p]
CanonicalRows ==
    {CanonicalRow(d, "A", p) : d \in RawStamps, p \in RawPrices}
    \cup {CanonicalRow(d, "B", Num(100)) : d \in RawStamps}
    \cup {CanonicalRow(BadStamp, "A", Num(100)),
          CanonicalRow(Stamp(0, 0, 0), "A", NaN),
          CanonicalRow(Stamp(1, 1, 1), "A", Text)}
\* rows of a file with aliased column names and no symbol column
AliasColumns == <<"Datetime", "Close">>
AliasRow(d, p) == [c \in Range(AliasColumns) |-> IF c = "Datetime" THEN d ELSE p]
AliasRows == {AliasRow(d, Num(100)) : d \in RawStamps}
\* a file without any price column
NoPriceColumns == <<"date", "symbol", "volume">>
NoPriceRow ==
    [c \in Range(NoPriceColumns) |->
        CASE c = "date" -> Stamp(0, 0, 0) [] c = "symbol" -> "A" [] OTHER -> Num(100)]

RawCsv(cols, rows) == [exists |-> TRUE, readable |-> TRUE, cols |-> cols, rows |-> rows]
Unreadable == [exists |-> TRUE, readable |-> FALSE, cols |-> <<>>, rows |-> {}]
Absent == [exists |-> FALSE, readable |-> FALSE, cols |-> <<>>, rows |-> {}]

RawFilesWith(n) ==
    {RawCsv(CanonicalColumns, rs) : rs \in SubsetsOfSize(CanonicalRows, n)}
    \cup (IF n > 0 THEN {RawCsv(AliasColumns, rs) : rs \in SubsetsOfSize(AliasRows, n)}
          ELSE {})
    \cup (IF n = 0 THEN {Unreadable, Absent} ELSE {})
    \cup (IF n = 1 THEN {RawCsv(NoPriceColumns, {NoPriceRow})} ELSE {})

\* a forecast file left by an earlier run (one exists for symbol A only)
StaleSeries == Series(<<0>>, <<Num(100)>>)
StaleForecast(s) == ForecastTable(s, StaleSeries)

FileA == CsvName("A")
FileB == CsvName("B")

Init ==
    /\ \E nA \in 0..MaxRows : \E nB \in 0..(MaxRows - nA) :
         \E a \in RawFilesWith(nA), b \in RawFilesWith(nB) :
            raw = [f \in Files |-> IF f = FileA THEN a ELSE b]
    /\ processed = [f \in Files |-> NoFile]
    /\ forecasted = [s \in Symbols |->
                        IF s = "A" THEN StaleForecast(s) ELSE NoFile]
    /\ earlier = forecasted
    /\ pc = "start"
    /\ todo = {}
    /\ fileResult = [f \in Files |-> "none"]
    /\ data = {}
    /\ dataCols = {}
    /\ groups = <<>>
    /\ symResult = [s \in Symbols |-> "none"]
    /\ fitted = {}

\* ------------------------------------------- processed_data.main, by step
Glob(dir) == {f \in Files : dir[f].exists}

UnchangedForecastRun ==
    UNCHANGED <<data, dataCols, groups, symResult, fitted, forecasted, earlier>>

\* main: the glob finds no raw file and main returns
NormNoFiles ==
    /\ pc = "start"
    /\ Glob(raw) = {}
    /\ pc' = "norm_returned"
    /\ UNCHANGED <<raw, processed, todo, fileResult>>
    /\ UnchangedForecastRun

\* main: the glob finds files and the loop over them starts
NormBegin ==
    /\ pc = "start"
    /\ Glob(raw) # {}
    /\ todo' = Glob(raw)
    /\ fileResult' = [f \in Files |-> IF f \in Glob(raw) THEN "pending" ELSE "none"]
    /\ pc' = "norm"
    /\ UNCHANGED <<raw, processed>>
    /\ UnchangedForecastRun

AfterFile(f) ==
    /\ todo' = todo \ {f}
    /\ pc' = IF todo \ {f} = {} THEN "norm_done" ELSE "norm"

\* one turn of the loop: process_file returns None, save_processed skips
ProcessSkip(f) ==
    /\ pc = "norm" /\ f \in todo
    /\ process_file(f, raw[f]).kind = "none"
    /\ fileResult' = [fileResult EXCEPT ![f] = "skipped"]
    /\ AfterFile(f)
    /\ UNCHANGED <<raw, processed>>
    /\ UnchangedForecastRun

\* one turn of the loop: process_file raises, nothing catches it, main ends
ProcessRaise(f) ==
    /\ pc = "norm" /\ f \in todo
    /\ process_file(f, raw[f]).kind = "raise"
    /\ fileResult' = [fileResult EXCEPT ![f] = "raised"]
    /\ pc' = "norm_raised"
    /\ UNCHANGED <<raw, processed, todo>>
    /\ UnchangedForecastRun

\* one turn of the loop: process_file returns a table, save_processed writes it
ProcessSave(f) ==
    /\ pc = "norm" /\ f \in todo
    /\ process_file(f, raw[f]).kind = "df"
    /\ processed' = [processed EXCEPT ![f] = ToCsv(process_file(f, raw[f]))]
    /\ fileResult' = [fileResult EXCEPT ![f] = "saved"]
    /\ AfterFile(f)
    /\ UNCHANGED raw
    /\ UnchangedForecastRun

\* one turn of the loop: to_csv fails in save_processed, which catches it
ProcessSaveFail(f) ==
    /\ pc = "norm" /\ f \in todo
    /\ process_file(f, raw[f]).kind = "df"
    /\ fileResult' = [fileResult EXCEPT ![f] = "save_failed"]
    /\ AfterFile(f)
    /\ UNCHANGED <<raw, processed>>
    /\ UnchangedForecastRun

\* ------------------------------------------------- forecast.main, by step
NormEnded == pc \in {"norm_returned", "norm_done", "norm_raised"}

UnchangedNormRun == UNCHANGED <<raw, processed, todo, fileResult, earlier>>

\* main: the glob finds no processed file and main returns
ForecastNoFiles ==
    /\ NormEnded
    /\ Glob(processed) = {}
    /\ pc' = "fc_returned"
    /\ UNCHANGED <<data, dataCols, groups, symResult, fitted, forecasted>>
    /\ UnchangedNormRun

\* main: files are found, none of them can be read, main returns
ForecastNoneReadable ==
    /\ NormEnded
    /\ Glob(processed) # {}
    /\ pc' = "fc_returned"
    /\ UNCHANGED <<data, dataCols, groups, symResult, fitted, forecasted>>
    /\ UnchangedNormRun

\* main: the readable files are concatenated; main returns when a required
\* column is missing and starts the loop over the symbols otherwise
ForecastBegin(readable) ==
    /\ NormEnded
    /\ readable # {} /\ readable \subseteq Glob(processed)
    /\ data' = Concat(processed, readable)
    /\ dataCols' = ConcatColumns(processed, readable)
    /\ IF RequiredColumns \subseteq ConcatColumns(processed, readable)
       THEN /\ groups' = GroupKeys(Concat(processed, readable))
            /\ symResult' = [s \in Symbols |->
                               IF s \in Range(GroupKeys(Concat(processed, readable)))
                               THEN "pending" ELSE "none"]
            /\ pc' = IF GroupKeys(Concat(processed, readable)) = <<>>
                     THEN "fc_done" ELSE "fc"
       ELSE /\ pc' = "fc_returned"
            /\ UNCHANGED <<groups, symResult>>
    /\ UNCHANGED <<fitted, forecasted>>
    /\ UnchangedNormRun

Current == Head(groups)
CurrentSeries == prepare_series(dataCols, Group(data, Current))

AfterSymbol ==
    /\ groups' = Tail(groups)
    /\ pc' = IF Tail(groups) = <<>> THEN "fc_done" ELSE "fc"

\* forecast_one_symbol: prepare_series returns None, the symbol is skipped
ForecastSkip ==
    /\ pc = "fc"
    /\ CurrentSeries.kind = "none"
    /\ symResult' = [symResult EXCEPT ![Current] = "skipped"]
    /\ AfterSymbol
    /\ UNCHANGED <<data, dataCols, fitted, forecasted>>
    /\ UnchangedNormRun

\* forecast_one_symbol: prepare_series raises outside the try, main ends
ForecastRaise ==
    /\ pc = "fc"
    /\ CurrentSeries.kind = "raise"
    /\ symResult' = [symResult EXCEPT ![Current] = "raised"]
    /\ pc' = "fc_raised"
    /\ UNCHANGED <<data, dataCols, groups, fitted, forecasted>>
    /\ UnchangedNormRun

\* mutant: a failed fit removes the symbol's forecast file
ForecastFitFail_RemovesFile ==
    /\ pc = "fc"
    /\ CurrentSeries.kind = "series"
    /\ fitted' = fitted \cup {Current}
    /\ forecasted' = [forecasted EXCEPT ![Current] = NoFile]
    /\ symResult' = [symResult EXCEPT ![Current] = "fit_failed"]
    /\ AfterSymbol
    /\ UNCHANGED <<data, dataCols>>
    /\ UnchangedNormRun

\* forecast_one_symbol: fit or get_forecast raises, the except clause skips
ForecastFitFail ==
    /\ pc = "fc"
    /\ CurrentSeries.kind = "series"
    /\ fitted' = fitted \cup {Current}
    /\ symResult' = [symResult EXCEPT ![Current] = "fit_failed"]
    /\ AfterSymbol
    /\ UNCHANGED <<data, dataCols, forecasted>>
    /\ UnchangedNormRun

\* forecast_one_symbol: to_csv cannot open the file, the except clause skips
ForecastWriteFail ==
    /\ pc = "fc"
    /\ CurrentSeries.kind = "series"
    /\ fitted' = fitted \cup {Current}
    /\ symResult' = [symResult EXCEPT ![Current] = "write_failed"]
    /\ AfterSymbol
    /\ UNCHANGED <<data, dataCols, forecasted>>
    /\ UnchangedNormRun

\* forecast_one_symbol: the model is fitted and the forecast file is written
ForecastSave ==
    /\ pc = "fc"
    /\ CurrentSeries.kind = "series"
    /\ fitted' = fitted \cup {Current}
    /\ forecasted' = [forecasted EXCEPT
                         ![Current] = ForecastTable(Current, CurrentSeries)]
    /\ symResult' = [symResult EXCEPT ![Current] = "written"]
    /\ AfterSymbol
    /\ UNCHANGED <<data, dataCols>>
    /\ UnchangedNormRun

Next ==
    \/ NormNoFiles
    \/ NormBegin
    \/ \E f \in Files : ProcessSkip(f)
    \/ \E f \in Files : ProcessRaise(f)
    \/ \E f \in Files : ProcessSave(f)
    \/ \E f \in Files : ProcessSaveFail(f)
    \/ ForecastNoFiles
    \/ ForecastNoneReadable
    \/ \E readable \in SUBSET Files : ForecastBegin(readable)
    \/ ForecastSkip
    \/ ForecastRaise
    \/ ForecastFitFail
    \/ ForecastWriteFail
    \/ ForecastSave

Spec == Init /\ [][Next]_vars

\* ================================================================ claims
\* the table process_file works on, and its rows that survive the cleaning
Fixed(f) ==
    validate_and_fix_columns([cols |-> raw[f].cols, rows |-> raw[f].rows], f)
Surviving(f) ==
    IF raw[f].readable /\ RequiredColumns \subseteq Range(Fixed(f).cols)
    THEN Cleaned(Fixed(f)) ELSE {}
Priced(f) == {p \in Surviving(f) : p.price.tag = "num"}
DayOf(t) == t \div TicksPerDay
FileSymbols(f) == {p.symbol : p \in Surviving(f)}
ProcessedSymbols(f) ==
    IF processed[f].exists
    THEN {processed[f].rows[i].symbol : i \in DOMAIN processed[f].rows} ELSE {}
Handled == {"saved", "skipped", "save_failed"}
SymbolHandled == {"skipped", "fit_failed", "write_failed", "written"}

\* C1: in a forecast run a failure on one symbol is a skip of that symbol:
\* no exception leaves forecast_one_symbol, and when the run is over every
\* symbol of the grouped data has been handled.
C1_SymbolFailureIsSkip ==
    /\ pc # "fc_raised"
    /\ pc = "fc_done" =>
         \A s \in Range(GroupKeys(data)) : symResult[s] \in SymbolHandled

\* C2: in a normalization run no failure on one file leaves process_file or
\* save_processed, and when the run is over every discovered file has been
\* handled, saved or skipped.
C2_FileFailureIsSkip ==
    /\ pc # "norm_raised"
    /\ pc = "norm_done" => \A f \in Glob(raw) : fileResult[f] \in Handled

\* C3: the dates of a processed file are calendar dates without a
\* time-of-day, one row for each day from the day of the earliest surviving
\* input row to the day of the latest, in increasing order.
C3_CalendarComplete ==
    \A f \in Files : processed[f].exists =>
        LET days == {DayOf(p.t) : p \in Surviving(f)}
            rows == processed[f].rows
        IN  /\ Len(rows) = Max(days) - Min(days) + 1
            /\ \A i \in DOMAIN rows :
                 /\ rows[i].date.tod = 0 /\ rows[i].date.off = 0
                 /\ rows[i].date.day = Min(days) + i - 1

\* C4: every row of a processed file has a numeric, non-null price, and a
\* raw file without any numeric price yields no processed file.
C4_PriceNonNull ==
    \A f \in Files : processed[f].exists =>
        /\ Priced(f) # {}
        /\ \A i \in DOMAIN processed[f].rows :
             processed[f].rows[i].price.tag = "num"

\* C5 as claimed: a raw file with fewer than 20 usable rows, whatever days
\* they span, never has a model fitted for its symbol, and the symbol's
\* forecast file stays as it was.
C5_FewRowsSkipped ==
    \A f \in Files : Cardinality(Surviving(f)) < 20 =>
        \A s \in FileSymbols(f) : s \notin fitted /\ forecasted[s] = earlier[s]

\* C5 as amended: a raw file whose usable rows span fewer than 20 daily
\* grid points from the earliest to the latest, and whose symbol no other
\* processed file carries, never has a model fitted for that symbol, and
\* the symbol's forecast file stays as it was.
SpanPoints(f) ==
    LET ts == {p.t : p \in Surviving(f)}
    IN  (Max(ts) - Min(ts)) \div TicksPerDay + 1
C5_ShortSpanSkipped ==
    \A f \in Files : (Surviving(f) # {} /\ SpanPoints(f) < 20) =>
        \A s \in FileSymbols(f) :
            (\A g \in Files \ {f} : s \notin ProcessedSymbols(g)) =>
                s \notin fitted /\ forecasted[s] = earlier[s]
C5_Witness ==
    \E f \in Files : \E s \in FileSymbols(f) :
        /\ SpanPoints(f) < 20 /\ Cardinality(Surviving(f)) > 1
        /\ processed[f].exists
        /\ \A g \in Files \ {f} : s \notin ProcessedSymbols(g)
        /\ pc = "fc_done" /\ symResult[s] = "skipped"

\* C6: a forecast file written in this run has the five columns and exactly
\* 30 rows, all with the symbol it is keyed by; its dates go up one day at a
\* time, the first being one day after the last date of the symbol's
\* aligned series, which has at least 20 points.
PricedInstants(s) ==
    {ToUtcNaive(x.row.date).t : x \in {x \in Group(data, s) : x.row.price.tag # "nan"}}
AlignedPoints(s) ==
    (Max(PricedInstants(s)) - Min(PricedInstants(s))) \div TicksPerDay + 1
LastAligned(s) ==
    Min(PricedInstants(s)) + (AlignedPoints(s) - 1) * TicksPerDay
C6_ForecastShape ==
    \A s \in Symbols : symResult[s] = "written" =>
        /\ forecasted[s].exists
        /\ forecasted[s].cols = <<"date", "symbol", "forecast", "ci_lower", "ci_upper">>
        /\ Len(forecasted[s].rows) = 30
        /\ AlignedPoints(s) >= 20
        /\ \A i \in DOMAIN forecasted[s].rows :
             /\ forecasted[s].rows[i].symbol = s
             /\ forecasted[s].rows[i].date.off = 0
             /\ ToUtcNaive(forecasted[s].rows[i].date).t
                  = LastAligned(s) + i * TicksPerDay
C6_Witness ==
    \E s \in Symbols :
        /\ symResult[s] = "written"
        /\ forecasted[s] # earlier[s]
        /\ forecasted[s].rows[1].date.tod # 0

\* C7: a batch run ends without handling its units only when no input file
\* is found or none is readable, and then it has written nothing; otherwise
\* every discovered file, and every symbol, has been handled when it ends.
C7_OnlyWholeRunFailureStops ==
    /\ pc \in {"norm_returned", "norm_done", "norm_raised"} =>
         \/ Glob(raw) = {} /\ \A f \in Files : ~processed[f].exists
         \/ \A f \in Glob(raw) : fileResult[f] \in Handled
    /\ pc = "fc_returned" => data = {} /\ forecasted = earlier
    /\ pc \in {"fc_done", "fc_raised"} =>
         \A s \in Range(GroupKeys(data)) : symResult[s] \in SymbolHandled

\* C8: a step in which forecast_one_symbol skips its symbol (series
\* preparation returns None, or fit/forecast fails) leaves every forecast
\* file as it was; a forecast file changes only in the step that handles
\* its symbol successfully, and no other file changes in that step.
SkippedNow(s) ==
    symResult[s] = "pending" /\ symResult'[s] \in {"skipped", "fit_failed"}
C8_SkipLeavesForecasts ==
    [][/\ (\E s \in Symbols : SkippedNow(s)) => forecasted' = forecasted
       /\ \A s \in Symbols : forecasted'[s] # forecasted[s] =>
            /\ symResult[s] = "pending" /\ symResult'[s] = "written"
            /\ \A o \in Symbols \ {s} : forecasted'[o] = forecasted[o]]_vars
C8_Witness ==
    /\ pc = "fc_done"
    /\ symResult["A"] = "fit_failed"
    /\ forecasted["A"].exists /\ forecasted["A"] = earlier["A"]

\* C9: all rows of a processed file carry one symbol.
C9_SingleSymbol ==
    \A f \in Files : processed[f].exists =>
        \A i, j \in DOMAIN processed[f].rows :
            processed[f].rows[i].symbol = processed[f].rows[j].symbol

\* C10: in a processed file a day with a surviving numerically priced input
\* row has a row carrying the price of such a row of that day; any other day
\* carries the price of the nearest earlier priced day (of the first priced
\* day before it); and Daily_Change_% is 0 on every day that had no
\* surviving input row.
PriceOfDay(f, d) == {p.price : p \in {p \in Priced(f) : DayOf(p.t) = d}}
C10_PriceCarried ==
    \A f \in Files : processed[f].exists =>
        LET rows == processed[f].rows
            pricedDays == {DayOf(p.t) : p \in Priced(f)}
            inputDays == {DayOf(p.t) : p \in Surviving(f)}
        IN  /\ \A d \in pricedDays : \E i \in DOMAIN rows :
                 rows[i].date.day = d /\ rows[i].price \in PriceOfDay(f, d)
            /\ \A i \in DOMAIN rows :
                 LET d == rows[i].date.day
                     before == {e \in pricedDays : e < d}
                 IN  (d \notin pricedDays /\ pricedDays # {}) =>
                        rows[i].price \in PriceOfDay(f,
                            IF before # {} THEN Max(before) ELSE Min(pricedDays))
            /\ \A i \in DOMAIN rows :
                 rows[i].date.day \notin inputDays =>
                    rows[i].daily.tag = "num" /\ rows[i].daily.num = 0

====
